---- MODULE Spec2Model ----
(***************************************************************************)
(* Verification model of two parts of flux-core:                           *)
(*                                                                         *)
(*   - the resource module's membership monitor (monitor.c): the leader's  *)
(*     up / torpid / lost sets, the events it posts to resource.eventlog,  *)
(*     and the monitor-waitup and monitor-force-down RPCs;                 *)
(*   - the KVS waitqueue (waitqueue.c): reference counted wait_t objects   *)
(*     on any number of waitqueue_t lists.                                 *)
(*                                                                         *)
(* The two parts share no state.  Spec, SpecMember, SpecWaitup and         *)
(* SpecDown are specifications of the monitor, SpecWQ and SpecWQReentrant  *)
(* of the waitqueue; each leaves the other part's variables at their       *)
(* initial values.                                                         *)
(***************************************************************************)
EXTENDS Integers, Sequences, FiniteSets, TLC

(***************************************************************************)
(* Bounds of the model.                                                    *)
(***************************************************************************)
\* monitor->size: the instance size (monitor.c, monitor_create)
Size == 2
\* RPC requests (waitup and force-down together) the reactor delivers
MaxReq == 2

\* wait_t objects the user creates
NWaits == 2
\* waitqueue_t objects
NQueues == 2
\* queue entries (the sum of all usecounts) the model lets exist at once
MaxEntries == 3

Ranks == 0 .. (Size - 1)
\* the ranks and one id that is no rank of the instance
Ids == 0 .. Size

VARIABLES
    \* ---- monitor.c: struct monitor and what it talks to ----
    rank,               \* ctx->rank
    monitor_force_up,   \* config->monitor_force_up
    recovery_mode,      \* the broker.recovery-mode attribute is set
    f_online,           \* monitor->f_online: "NULL", "ready", "fulfilled"
    f_torpid,           \* monitor->f_torpid
    up,                 \* monitor->up      (IdsetNull on a follower)
    torpid,             \* monitor->torpid
    lost,               \* monitor->lost
    down,               \* monitor->down, the cache of monitor_get_down()
    waitup_requests,    \* monitor->waitup_requests, a list of messages
    eventlog,           \* resource.eventlog, as summarised by reslog_post_pack
    nresp,              \* request id -> number of responses sent to it
    nreq,               \* number of requests delivered so far
    out,                \* what the handler that ran last posted and sent, in order
    last,               \* the handler that ran last and its return code
    \* ---- waitqueue.c ----
    waits,              \* wait id -> struct wait_struct
    queues,             \* queue id -> struct waitqueue_struct
    fired,              \* wait id -> number of times its callback was invoked
    run,                \* the wait_runqueue call in progress: its queue and cpy
    aborted,            \* an assert() failed: the process is gone
    popped              \* the wait the last call popped in wait_runqueue's loop
                        \* (0: the last call was no turn of that loop)

mvars == << rank, monitor_force_up, recovery_mode, f_online, f_torpid, up,
            torpid, lost, down, waitup_requests, eventlog, nresp, nreq,
            out, last >>

wqvars == << waits, queues, fired, run, aborted, popped >>

vars == << mvars, wqvars >>

(***************************************************************************)
(* libidset.  An idset is a set of ids; its string form (IDSET_FLAG_RANGE) *)
(* is the ascending list of its maximal runs, "0-1,3" being                *)
(* << <<0, 1>>, <<3, 3>> >>.  A string is decodable when every range has   *)
(* lo <= hi.                                                               *)
(***************************************************************************)
RunEnd(S, lo) == CHOOSE hi \in S : /\ hi >= lo
                                   /\ \A k \in lo .. hi : k \in S
                                   /\ (hi + 1) \notin S

RECURSIVE EncodeFrom(_, _)
EncodeFrom(S, rest) ==
    IF rest = {} THEN << >>
    ELSE LET lo == CHOOSE x \in rest : \A y \in rest : x <= y
             hi == RunEnd(S, lo)
         IN  << <<lo, hi>> >> \o EncodeFrom(S, {x \in rest : x > hi})

idset_encode(S) == EncodeFrom(S, S)

idset_valid(s) == \A i \in 1 .. Len(s) : s[i][1] <= s[i][2]

idset_decode(s) == UNION { s[i][1] .. s[i][2] : i \in 1 .. Len(s) }

\* a NULL struct idset pointer
IdsetNull == { -1 }

idset_count(S) == IF S = IdsetNull THEN 0 ELSE Cardinality(S)

idset_difference(a, b) == a \ b

\* a string idset_decode rejects: the range "1-0"
BadIdset == << <<1, 0>> >>

\* the strings a groups.get response or a force-down request may carry
MemberStrings(U) == { idset_encode(S) : S \in SUBSET U } \cup { BadIdset }

(***************************************************************************)
(* What a handler does to the outside: events posted through ctx->reslog   *)
(* and responses sent with flux_respond / flux_respond_error.  A handler   *)
(* threads a record io = [log, out, nresp] through its calls:              *)
(*   log   resource.eventlog.  The log only grows; the model keeps of it   *)
(*           restart: the online set of the restart event,                 *)
(*           replay: the whole log replayed: start from the restart        *)
(*                   event's online set, add each online event's idset,    *)
(*                   remove each offline event's,                          *)
(*           online: the ids named by the online events of the whole log;  *)
(*   out   the events posted and the responses sent by this handler, in    *)
(*         the order of the calls; a response also records                 *)
(*         count(monitor->up) at the moment of the call;                   *)
(*   nresp request id -> number of responses sent to it so far.            *)
(***************************************************************************)
Replay(acc, ev) ==
    CASE ev.name = "restart" -> idset_decode(ev.context.online)
      [] ev.name = "online"  -> acc \cup idset_decode(ev.context.idset)
      [] ev.name = "offline" -> acc \ idset_decode(ev.context.idset)
      [] OTHER               -> acc

reslog_post_pack(io, ev) ==
    [ io EXCEPT
        !.log = [ restart |-> IF ev.name = "restart"
                              THEN idset_decode(ev.context.online)
                              ELSE io.log.restart,
                  replay |-> Replay(io.log.replay, ev),
                  online |-> IF ev.name = "online"
                             THEN io.log.online \cup idset_decode(ev.context.idset)
                             ELSE io.log.online ],
        !.out = Append(@, [ t |-> "post", ev |-> ev ]) ]

flux_respond(io, id, upset) ==
    [ io EXCEPT
        !.nresp[id] = @ + 1,
        !.out = Append(@, [ t |-> "respond", id |-> id, rc |-> "ok",
                            errnum |-> "0", errstr |-> "",
                            upcount |-> idset_count(upset) ]) ]

flux_respond_error(io, id, errnum, errstr, upset) ==
    [ io EXCEPT
        !.nresp[id] = @ + 1,
        !.out = Append(@, [ t |-> "respond", id |-> id, rc |-> "error",
                            errnum |-> errnum, errstr |-> errstr,
                            upcount |-> idset_count(upset) ]) ]

EmptyLog == [ restart |-> {}, replay |-> {}, online |-> {} ]

\* io as a handler finds it
HandlerEntry == [ log |-> eventlog, out |-> << >>, nresp |-> nresp ]

\* the handler returns: what it did becomes the state
HandlerReturn(io) ==
    /\ eventlog' = io.log
    /\ out' = io.out
    /\ nresp' = io.nresp

(***************************************************************************)
(* post_event: post 'name' with context {idset: encode(ids)}; nothing is   *)
(* posted for an empty set.  'fail' is idset_encode or reslog_post_pack    *)
(* failing.                                                                *)
(***************************************************************************)
Event(name, ids) == [ name |-> name, context |-> [ idset |-> idset_encode(ids) ] ]

post_event(io, name, ids, fail) ==
    IF idset_count(ids) = 0 THEN [ rc |-> 0, io |-> io ]
    ELSE IF fail THEN [ rc |-> -1, io |-> io ]
    ELSE [ rc |-> 0, io |-> reslog_post_pack(io, Event(name, ids)) ]

(***************************************************************************)
(* post_join_leave.  'fail' names the step that fails: "difference" (an    *)
(* idset_difference allocation), "join" or "leave" (that post_event), or   *)
(* "none".  isup is oldset == monitor->up.  The result carries the return  *)
(* code, io and monitor->lost.                                             *)
(***************************************************************************)
PostFailures(oldset, newset) ==
    { "none", "difference" }
        \cup (IF idset_difference(newset, oldset) # {} THEN { "join" } ELSE {})
        \cup (IF idset_difference(oldset, newset) # {} THEN { "leave" } ELSE {})

\* post_join_leave posting the leave event first
post_join_leave_leave_first(io, lostset, oldset, newset, join_event, leave_event, isup, fail) ==
    LET join  == idset_difference(newset, oldset)
        leave == idset_difference(oldset, newset)
        pl    == post_event(io, leave_event, leave, fail = "leave")
        pj    == post_event(pl.io, join_event, join, fail = "join")
    IN  IF fail = "difference" THEN [ rc |-> -1, io |-> io, lost |-> lostset ]
        ELSE IF pl.rc < 0 THEN [ rc |-> -1, io |-> pl.io, lost |-> lostset ]
        ELSE IF pj.rc < 0 THEN [ rc |-> -1, io |-> pj.io, lost |-> lostset ]
        ELSE [ rc |-> 0, io |-> pj.io,
               lost |-> IF isup THEN (lostset \cup leave) \ join ELSE lostset ]

\* post_join_leave without the test oldset == monitor->up
post_join_leave_any_set(io, lostset, oldset, newset, join_event, leave_event, isup, fail) ==
    LET join  == idset_difference(newset, oldset)
        leave == idset_difference(oldset, newset)
        pj    == post_event(io, join_event, join, fail = "join")
        pl    == post_event(pj.io, leave_event, leave, fail = "leave")
    IN  IF fail = "difference" THEN [ rc |-> -1, io |-> io, lost |-> lostset ]
        ELSE IF pj.rc < 0 THEN [ rc |-> -1, io |-> pj.io, lost |-> lostset ]
        ELSE IF pl.rc < 0 THEN [ rc |-> -1, io |-> pl.io, lost |-> lostset ]
        ELSE [ rc |-> 0, io |-> pl.io, lost |-> (lostset \cup leave) \ join ]

\* post_join_leave without idset_subtract (monitor->lost, join)
post_join_leave_keep_rejoined(io, lostset, oldset, newset, join_event, leave_event, isup, fail) ==
    LET join  == idset_difference(newset, oldset)
        leave == idset_difference(oldset, newset)
        pj    == post_event(io, join_event, join, fail = "join")
        pl    == post_event(pj.io, leave_event, leave, fail = "leave")
    IN  IF fail = "difference" THEN [ rc |-> -1, io |-> io, lost |-> lostset ]
        ELSE IF pj.rc < 0 THEN [ rc |-> -1, io |-> pj.io, lost |-> lostset ]
        ELSE IF pl.rc < 0 THEN [ rc |-> -1, io |-> pl.io, lost |-> lostset ]
        ELSE [ rc |-> 0, io |-> pl.io,
               lost |-> IF isup THEN lostset \cup leave ELSE lostset ]

\* post_join_leave updating monitor->lost before it posts the events
post_join_leave_lost_first(io, lostset, oldset, newset, join_event, leave_event, isup, fail) ==
    LET join  == idset_difference(newset, oldset)
        leave == idset_difference(oldset, newset)
        pj    == post_event(io, join_event, join, fail = "join")
        pl    == post_event(pj.io, leave_event, leave, fail = "leave")
        newlost == IF isup THEN (lostset \cup leave) \ join ELSE lostset
    IN  IF fail = "difference" THEN [ rc |-> -1, io |-> io, lost |-> lostset ]
        ELSE IF pj.rc < 0 THEN [ rc |-> -1, io |-> pj.io, lost |-> newlost ]
        ELSE IF pl.rc < 0 THEN [ rc |-> -1, io |-> pl.io, lost |-> newlost ]
        ELSE [ rc |-> 0, io |-> pl.io, lost |-> newlost ]

post_join_leave(io, lostset, oldset, newset, join_event, leave_event, isup, fail) ==
    LET join  == idset_difference(newset, oldset)
        leave == idset_difference(oldset, newset)
        pj    == post_event(io, join_event, join, fail = "join")
        pl    == post_event(pj.io, leave_event, leave, fail = "leave")
    IN  IF fail = "difference" THEN [ rc |-> -1, io |-> io, lost |-> lostset ]
        ELSE IF pj.rc < 0 THEN [ rc |-> -1, io |-> pj.io, lost |-> lostset ]
        ELSE IF pl.rc < 0 THEN [ rc |-> -1, io |-> pl.io, lost |-> lostset ]
        ELSE [ rc |-> 0, io |-> pl.io,
               lost |-> IF isup THEN (lostset \cup leave) \ join ELSE lostset ]

(***************************************************************************)
(* notify_waitup: walk the deferred list; a request whose payload does not *)
(* unpack gets an error, one whose target equals count(up) gets success;   *)
(* both are deleted from the list, the others stay.                        *)
(***************************************************************************)
\* notify_waitup without flux_msglist_delete
RECURSIVE notify_waitup_no_delete(_, _, _)
notify_waitup_no_delete(list, io, upset) ==
    IF list = << >> THEN [ list |-> << >>, io |-> io ]
    ELSE LET msg  == Head(list)
             io1  == IF ~msg.ok
                         THEN flux_respond_error(io, msg.id, "EPROTO", "", upset)
                     ELSE IF msg.up = idset_count(upset)
                         THEN flux_respond(io, msg.id, upset)
                     ELSE io
             rest == notify_waitup_no_delete(Tail(list), io1, upset)
         IN  [ list |-> << msg >> \o rest.list, io |-> rest.io ]

RECURSIVE notify_waitup(_, _, _)
notify_waitup(list, io, upset) ==
    IF list = << >> THEN [ list |-> << >>, io |-> io ]
    ELSE LET msg  == Head(list)
             io1  == IF ~msg.ok
                         THEN flux_respond_error(io, msg.id, "EPROTO", "", upset)
                     ELSE IF msg.up = idset_count(upset)
                         THEN flux_respond(io, msg.id, upset)
                     ELSE io
             keep == msg.ok /\ msg.up # idset_count(upset)
             rest == notify_waitup(Tail(list), io1, upset)
         IN  [ list |-> IF keep THEN << msg >> \o rest.list ELSE rest.list,
               io |-> rest.io ]

(***************************************************************************)
(* monitor_create on a rank with the given configuration: the state it     *)
(* returns.  post_restart_event posts the first event.                     *)
(***************************************************************************)
\* post_restart_event encoding an empty set instead of monitor->up
post_restart_event_online_empty(io, upset) ==
    reslog_post_pack(io,
        [ name |-> "restart",
          context |-> [ ranks  |-> idset_encode(Ranks),
                        online |-> idset_encode({}) ] ])

post_restart_event(io, upset) ==
    reslog_post_pack(io,
        [ name |-> "restart",
          context |-> [ ranks  |-> idset_encode(Ranks),
                        online |-> idset_encode(upset) ] ])

\* the streams subscribed although monitor_force_up is set
Subscribes_despite_force_up(r, force, recovery) == r = 0 /\ ~recovery

Subscribes(r, force, recovery) == r = 0 /\ ~force /\ ~recovery

monitor_create(r, force, recovery) ==
    LET io0 == [ log |-> EmptyLog, out |-> << >>,
                 nresp |-> [ i \in 1 .. MaxReq |-> 0 ] ]
        io  == IF r > 0 THEN io0
               ELSE post_restart_event(io0, IF force THEN Ranks ELSE {})
    IN  /\ rank = r
        /\ monitor_force_up = force
        /\ recovery_mode = recovery
        /\ up = IF r > 0 THEN IdsetNull ELSE IF force THEN Ranks ELSE {}
        /\ torpid = IF r > 0 THEN IdsetNull ELSE {}
        /\ lost = IF r > 0 THEN IdsetNull ELSE {}
        /\ down = IdsetNull
        /\ f_online = IF Subscribes(r, force, recovery) THEN "ready" ELSE "NULL"
        /\ f_torpid = IF Subscribes(r, force, recovery) THEN "ready" ELSE "NULL"
        /\ waitup_requests = << >>
        /\ eventlog = io.log
        /\ out = io.out
        /\ nresp = io.nresp
        /\ nreq = 0
        /\ last = [ op |-> "monitor_create", rc |-> 0 ]

MonitorInit ==
    \E r \in 0 .. 1, force \in BOOLEAN, recovery \in BOOLEAN :
        monitor_create(r, force, recovery)

(***************************************************************************)
(* broker_online_cb: a response of the online group's stream.  'members'   *)
(* is the payload's string (BadIdset: group_get fails).  On a group_get    *)
(* failure the callback returns without flux_future_reset, so the future   *)
(* stays fulfilled and the callback does not run again.                    *)
(***************************************************************************)
\* broker_online_cb notifying the waiters of the new set before posting
broker_online_cb_notify_first(members, fail) ==
    /\ f_online = "ready"
    /\ IF ~idset_valid(members)
       THEN /\ f_online' = "fulfilled"
            /\ HandlerReturn(HandlerEntry)
            /\ last' = [ op |-> "broker_online_cb", rc |-> -2 ]
            /\ UNCHANGED << up, lost, waitup_requests >>
       ELSE LET new == idset_decode(members)
                nw  == notify_waitup(waitup_requests, HandlerEntry, new)
                pjl == post_join_leave(nw.io, lost, up, new,
                                       "online", "offline", TRUE, fail)
            IN  /\ lost' = pjl.lost
                /\ f_online' = "ready"
                /\ last' = [ op |-> "broker_online_cb", rc |-> pjl.rc ]
                /\ waitup_requests' = nw.list
                /\ HandlerReturn(pjl.io)
                /\ up' = IF pjl.rc < 0 THEN up ELSE new
    /\ UNCHANGED << rank, monitor_force_up, recovery_mode, f_torpid, torpid,
                    down, nreq, wqvars >>

\* broker_online_cb committing the snapshot whether or not the posts succeed
broker_online_cb_commit_always(members, fail) ==
    /\ f_online = "ready"
    /\ IF ~idset_valid(members)
       THEN /\ f_online' = "fulfilled"
            /\ HandlerReturn(HandlerEntry)
            /\ last' = [ op |-> "broker_online_cb", rc |-> -2 ]
            /\ UNCHANGED << up, lost, waitup_requests >>
       ELSE LET new == idset_decode(members)
                pjl == post_join_leave(HandlerEntry, lost, up, new,
                                       "online", "offline", TRUE, fail)
                nw  == notify_waitup(waitup_requests, pjl.io, new)
            IN  /\ lost' = pjl.lost
                /\ f_online' = "ready"
                /\ last' = [ op |-> "broker_online_cb", rc |-> pjl.rc ]
                /\ up' = new
                /\ waitup_requests' = nw.list
                /\ HandlerReturn(nw.io)
    /\ UNCHANGED << rank, monitor_force_up, recovery_mode, f_torpid, torpid,
                    down, nreq, wqvars >>

broker_online_cb(members, fail) ==
    /\ f_online = "ready"
    /\ IF ~idset_valid(members)
       THEN /\ f_online' = "fulfilled"
            /\ HandlerReturn(HandlerEntry)
            /\ last' = [ op |-> "broker_online_cb", rc |-> -2 ]
            /\ UNCHANGED << up, lost, waitup_requests >>
       ELSE LET new == idset_decode(members)
                pjl == post_join_leave(HandlerEntry, lost, up, new,
                                       "online", "offline", TRUE, fail)
                nw  == notify_waitup(waitup_requests, pjl.io, new)
            IN  /\ lost' = pjl.lost
                /\ f_online' = "ready"
                /\ last' = [ op |-> "broker_online_cb", rc |-> pjl.rc ]
                /\ IF pjl.rc < 0
                   THEN /\ HandlerReturn(pjl.io)
                        /\ UNCHANGED << up, waitup_requests >>
                   ELSE /\ up' = new
                        /\ waitup_requests' = nw.list
                        /\ HandlerReturn(nw.io)
    /\ UNCHANGED << rank, monitor_force_up, recovery_mode, f_torpid, torpid,
                    down, nreq, wqvars >>

(***************************************************************************)
(* broker_torpid_cb: the same for the broker.torpid group; oldset is       *)
(* monitor->torpid, so lost is left alone, and waitup is not notified.     *)
(***************************************************************************)
\* broker_torpid_cb with post_join_leave taking its oldset for monitor->up
broker_torpid_cb_adjusts_lost(members, fail) ==
    /\ f_torpid = "ready"
    /\ IF ~idset_valid(members)
       THEN /\ f_torpid' = "fulfilled"
            /\ HandlerReturn(HandlerEntry)
            /\ last' = [ op |-> "broker_torpid_cb", rc |-> -2 ]
            /\ UNCHANGED << torpid, lost >>
       ELSE LET new == idset_decode(members)
                pjl == post_join_leave(HandlerEntry, lost, torpid, new,
                                       "torpid", "lively", TRUE, fail)
            IN  /\ HandlerReturn(pjl.io)
                /\ lost' = pjl.lost
                /\ f_torpid' = "ready"
                /\ last' = [ op |-> "broker_torpid_cb", rc |-> pjl.rc ]
                /\ torpid' = IF pjl.rc < 0 THEN torpid ELSE new
    /\ UNCHANGED << rank, monitor_force_up, recovery_mode, f_online, up,
                    down, waitup_requests, nreq, wqvars >>

broker_torpid_cb(members, fail) ==
    /\ f_torpid = "ready"
    /\ IF ~idset_valid(members)
       THEN /\ f_torpid' = "fulfilled"
            /\ HandlerReturn(HandlerEntry)
            /\ last' = [ op |-> "broker_torpid_cb", rc |-> -2 ]
            /\ UNCHANGED << torpid, lost >>
       ELSE LET new == idset_decode(members)
                pjl == post_join_leave(HandlerEntry, lost, torpid, new,
                                       "torpid", "lively", FALSE, fail)
            IN  /\ HandlerReturn(pjl.io)
                /\ lost' = pjl.lost
                /\ f_torpid' = "ready"
                /\ last' = [ op |-> "broker_torpid_cb", rc |-> pjl.rc ]
                /\ torpid' = IF pjl.rc < 0 THEN torpid ELSE new
    /\ UNCHANGED << rank, monitor_force_up, recovery_mode, f_online, up,
                    down, waitup_requests, nreq, wqvars >>

(***************************************************************************)
(* waitup_cb: the resource.monitor-waitup request 'msg'.  msg.ok is        *)
(* whether the payload unpacks as {up: int}.                               *)
(***************************************************************************)
\* the id of the next request: requests are numbered as they arrive
NextId == nreq + 1

WaitupMsgs(id) ==
    { [ id |-> id, ok |-> TRUE, up |-> n ] : n \in -1 .. (Size + 1) }
        \cup { [ id |-> id, ok |-> FALSE, up |-> 0 ] }

\* waitup_cb testing up >= monitor->size
waitup_cb_size_rejected(msg) ==
    LET io == HandlerEntry
    IN  /\ nreq' = msg.id
        /\ IF ~msg.ok
           THEN /\ HandlerReturn(flux_respond_error(io, msg.id, "EPROTO", "", up))
                /\ last' = [ op |-> "waitup_cb", rc |-> -1 ]
                /\ UNCHANGED waitup_requests
           ELSE IF rank # 0
           THEN /\ HandlerReturn(flux_respond_error(io, msg.id, "EPROTO",
                                    "this RPC only works on rank 0", up))
                /\ last' = [ op |-> "waitup_cb", rc |-> -1 ]
                /\ UNCHANGED waitup_requests
           ELSE IF msg.up >= Size \/ msg.up < 0
           THEN /\ HandlerReturn(flux_respond_error(io, msg.id, "EPROTO",
                                    "up value is out of range", up))
                /\ last' = [ op |-> "waitup_cb", rc |-> -1 ]
                /\ UNCHANGED waitup_requests
           ELSE IF idset_count(up) # msg.up
           THEN /\ waitup_requests' = Append(waitup_requests, msg)
                /\ HandlerReturn(io)
                /\ last' = [ op |-> "waitup_cb", rc |-> 1 ]
           ELSE /\ HandlerReturn(flux_respond(io, msg.id, up))
                /\ last' = [ op |-> "waitup_cb", rc |-> 0 ]
                /\ UNCHANGED waitup_requests
        /\ UNCHANGED << rank, monitor_force_up, recovery_mode, f_online,
                        f_torpid, up, torpid, lost, down, wqvars >>

waitup_cb(msg) ==
    LET io == HandlerEntry
    IN  /\ nreq' = msg.id
        /\ IF ~msg.ok
           THEN /\ HandlerReturn(flux_respond_error(io, msg.id, "EPROTO", "", up))
                /\ last' = [ op |-> "waitup_cb", rc |-> -1 ]
                /\ UNCHANGED waitup_requests
           ELSE IF rank # 0
           THEN /\ HandlerReturn(flux_respond_error(io, msg.id, "EPROTO",
                                    "this RPC only works on rank 0", up))
                /\ last' = [ op |-> "waitup_cb", rc |-> -1 ]
                /\ UNCHANGED waitup_requests
           ELSE IF msg.up > Size \/ msg.up < 0
           THEN /\ HandlerReturn(flux_respond_error(io, msg.id, "EPROTO",
                                    "up value is out of range", up))
                /\ last' = [ op |-> "waitup_cb", rc |-> -1 ]
                /\ UNCHANGED waitup_requests
           ELSE IF idset_count(up) # msg.up
           THEN /\ waitup_requests' = Append(waitup_requests, msg)
                /\ HandlerReturn(io)
                /\ last' = [ op |-> "waitup_cb", rc |-> 1 ]
           ELSE /\ HandlerReturn(flux_respond(io, msg.id, up))
                /\ last' = [ op |-> "waitup_cb", rc |-> 0 ]
                /\ UNCHANGED waitup_requests
        /\ UNCHANGED << rank, monitor_force_up, recovery_mode, f_online,
                        f_torpid, up, torpid, lost, down, wqvars >>

(***************************************************************************)
(* force_down_cb: the resource.monitor-force-down request 'msg'.  msg.ok   *)
(* is whether the payload unpacks as {ranks: string}; 'fail' is "copy"     *)
(* (idset_copy cannot allocate) or a failure of post_join_leave.           *)
(***************************************************************************)
ForceDownMsgs(id, U) ==
    { [ id |-> id, ok |-> TRUE, ranks |-> s ] : s \in MemberStrings(U) }
        \cup { [ id |-> id, ok |-> FALSE, ranks |-> << >> ] }

idset_decode_subtract(target, s) == target \ idset_decode(s)

ForceDownFailures(msg) ==
    IF rank = 0 /\ msg.ok /\ idset_valid(msg.ranks)
    THEN { "copy" } \cup PostFailures(up, idset_decode_subtract(up, msg.ranks))
    ELSE IF rank = 0 /\ msg.ok THEN { "none", "copy" }
    ELSE { "none" }

\* force_down_cb without its call of notify_waitup
force_down_cb_no_notify(msg, fail) ==
    LET io == HandlerEntry
    IN  /\ nreq' = msg.id
        /\ IF ~msg.ok
           THEN /\ HandlerReturn(flux_respond_error(io, msg.id, "EPROTO", "", up))
                /\ last' = [ op |-> "force_down_cb", rc |-> -1 ]
                /\ UNCHANGED << up, lost, waitup_requests >>
           ELSE IF up = IdsetNull \/ fail = "copy"
           THEN /\ HandlerReturn(flux_respond_error(io, msg.id,
                                    IF up = IdsetNull THEN "EINVAL" ELSE "ENOMEM",
                                    "", up))
                /\ last' = [ op |-> "force_down_cb", rc |-> -1 ]
                /\ UNCHANGED << up, lost, waitup_requests >>
           ELSE IF ~idset_valid(msg.ranks)
           THEN /\ HandlerReturn(flux_respond_error(io, msg.id, "EINVAL",
                                    "idset_decode_subtract error text", up))
                /\ last' = [ op |-> "force_down_cb", rc |-> -1 ]
                /\ UNCHANGED << up, lost, waitup_requests >>
           ELSE LET new == idset_decode_subtract(up, msg.ranks)
                    pjl == post_join_leave(io, lost, up, new,
                                           "online", "offline", TRUE, fail)
                IN  /\ lost' = pjl.lost
                    /\ last' = [ op |-> "force_down_cb", rc |-> pjl.rc ]
                    /\ IF pjl.rc < 0
                       THEN /\ HandlerReturn(flux_respond_error(pjl.io, msg.id,
                                    "errno",
                                    "monitor: error posting online/offline event",
                                    up))
                            /\ UNCHANGED << up, waitup_requests >>
                       ELSE /\ up' = new
                            /\ UNCHANGED waitup_requests
                            /\ HandlerReturn(flux_respond(pjl.io, msg.id, new))
        /\ UNCHANGED << rank, monitor_force_up, recovery_mode, f_online,
                        f_torpid, torpid, down, wqvars >>

force_down_cb(msg, fail) ==
    LET io == HandlerEntry
    IN  /\ nreq' = msg.id
        /\ IF ~msg.ok
           THEN /\ HandlerReturn(flux_respond_error(io, msg.id, "EPROTO", "", up))
                /\ last' = [ op |-> "force_down_cb", rc |-> -1 ]
                /\ UNCHANGED << up, lost, waitup_requests >>
           ELSE IF up = IdsetNull \/ fail = "copy"
           THEN /\ HandlerReturn(flux_respond_error(io, msg.id,
                                    IF up = IdsetNull THEN "EINVAL" ELSE "ENOMEM",
                                    "", up))
                /\ last' = [ op |-> "force_down_cb", rc |-> -1 ]
                /\ UNCHANGED << up, lost, waitup_requests >>
           ELSE IF ~idset_valid(msg.ranks)
           THEN /\ HandlerReturn(flux_respond_error(io, msg.id, "EINVAL",
                                    "idset_decode_subtract error text", up))
                /\ last' = [ op |-> "force_down_cb", rc |-> -1 ]
                /\ UNCHANGED << up, lost, waitup_requests >>
           ELSE LET new == idset_decode_subtract(up, msg.ranks)
                    pjl == post_join_leave(io, lost, up, new,
                                           "online", "offline", TRUE, fail)
                    nw  == notify_waitup(waitup_requests, pjl.io, new)
                IN  /\ lost' = pjl.lost
                    /\ last' = [ op |-> "force_down_cb", rc |-> pjl.rc ]
                    /\ IF pjl.rc < 0
                       THEN /\ HandlerReturn(flux_respond_error(pjl.io, msg.id,
                                    "errno",
                                    "monitor: error posting online/offline event",
                                    up))
                            /\ UNCHANGED << up, waitup_requests >>
                       ELSE /\ up' = new
                            /\ waitup_requests' = nw.list
                            /\ HandlerReturn(flux_respond(nw.io, msg.id, new))
        /\ UNCHANGED << rank, monitor_force_up, recovery_mode, f_online,
                        f_torpid, torpid, down, wqvars >>

(***************************************************************************)
(* monitor_get_down: recompute the cached set from monitor->up and return  *)
(* it.  'fail' is the first call's idset_create failing (NULL returned).   *)
(***************************************************************************)
\* monitor_get_down without idset_clear: only idset_set on the cached set
monitor_get_down_no_clear(fail) ==
    /\ IF down = IdsetNull /\ fail
       THEN /\ down' = IdsetNull
            /\ last' = [ op |-> "monitor_get_down", rc |-> -1 ]
       ELSE /\ down' = (IF down = IdsetNull THEN {} ELSE down)
                            \cup { id \in Ranks : id \notin up }
            /\ last' = [ op |-> "monitor_get_down", rc |-> 0 ]
    /\ HandlerReturn(HandlerEntry)
    /\ UNCHANGED << rank, monitor_force_up, recovery_mode, f_online, f_torpid,
                    up, torpid, lost, waitup_requests, nreq, wqvars >>

monitor_get_down(fail) ==
    /\ IF down = IdsetNull /\ fail
       THEN /\ down' = IdsetNull
            /\ last' = [ op |-> "monitor_get_down", rc |-> -1 ]
       ELSE /\ down' = { id \in Ranks : id \notin up }
            /\ last' = [ op |-> "monitor_get_down", rc |-> 0 ]
    /\ HandlerReturn(HandlerEntry)
    /\ UNCHANGED << rank, monitor_force_up, recovery_mode, f_online, f_torpid,
                    up, torpid, lost, waitup_requests, nreq, wqvars >>

(***************************************************************************)
(* waitqueue.c.  A wait_t is [magic, usecount, cb, hand_cb, hand_msg]: cb  *)
(* and hand_cb say whether w->cb and w->hand.cb are set, hand_msg whether  *)
(* w->hand.msg is.  magic is "none" before the wait is created and "freed" *)
(* after wait_destroy, which leaves the other fields as they were.  A       *)
(* waitqueue_t is [magic, q, msgs_on_queue] with q  *)
(* the zlist of wait ids.  The operators below take and return the record  *)
(* S = [waits, queues, fired, aborted].                                    *)
(***************************************************************************)
Waits == 1 .. NWaits
Queues == 1 .. NQueues

NoWait == [ magic |-> "none", usecount |-> 0, cb |-> FALSE,
            hand_cb |-> FALSE, hand_msg |-> FALSE ]

\* wait_create (cb, arg) with a callback
wait_create == [ NoWait EXCEPT !.magic = "WAIT_MAGIC", !.cb = TRUE ]

\* wait_create_msg_handler (h, mh, msg, arg, cb) with a message and a callback
wait_create_msg_handler ==
    [ NoWait EXCEPT !.magic = "WAIT_MAGIC", !.hand_cb = TRUE, !.hand_msg = TRUE ]

\* wait_queue_create
wait_queue_create == [ magic |-> "WAITQUEUE_MAGIC", q |-> << >>, msgs_on_queue |-> 0 ]

WQState == [ waits |-> waits, queues |-> queues, fired |-> fired,
             aborted |-> aborted ]

\* assert (w->usecount == 0) fails: abort
wait_destroy(S, w) ==
    IF S.waits[w].usecount # 0
    THEN [ S EXCEPT !.aborted = TRUE ]
    ELSE [ S EXCEPT !.waits[w].magic = "freed" ]

\* wait_addqueue without q->msgs_on_queue++
wait_addqueue_no_count(S, q, w, fail) ==
    IF fail THEN [ rc |-> -1, S |-> S ]
    ELSE [ rc |-> 0,
           S  |-> [ S EXCEPT
                      !.queues[q].q = Append(@, w),
                      !.waits[w].usecount = @ + 1 ] ]

\* 'fail' is zlist_append failing
wait_addqueue(S, q, w, fail) ==
    IF fail THEN [ rc |-> -1, S |-> S ]
    ELSE [ rc |-> 0,
           S  |-> [ S EXCEPT
                      !.queues[q].q = Append(@, w),
                      !.waits[w].usecount = @ + 1,
                      !.queues[q].msgs_on_queue =
                          IF S.waits[w].hand_msg THEN @ + 1 ELSE @ ] ]

wait_queue_length(S, q) == Len(S.queues[q].q)

wait_queue_msgs_count(S, q) == S.queues[q].msgs_on_queue

(***************************************************************************)
(* wait_destroy_msg.  pred is the test callback: pred.null for a NULL cb,  *)
(* else pred.P is the set of waits whose message it accepts.  failat = k   *)
(* makes the allocation for the k-th matching entry fail (0: none does).   *)
(***************************************************************************)
RECURSIVE RemoveFirst(_, _)
RemoveFirst(seq, x) ==
    IF seq = << >> THEN << >>
    ELSE IF Head(seq) = x THEN Tail(seq)
    ELSE << Head(seq) >> \o RemoveFirst(Tail(seq), x)

RECURSIVE SelectWaits(_, _, _)
SelectWaits(S, seq, pred) ==
    IF seq = << >> THEN << >>
    ELSE LET w == Head(seq)
             rest == SelectWaits(S, Tail(seq), pred)
         IN  IF S.waits[w].hand_msg /\ ~pred.null /\ w \in pred.P
             THEN << w >> \o rest ELSE rest

\* the scan without its w->hand.cb = NULL
ClearHandlers_skipped(S, tmp) == S

\* the scan's w->hand.cb = NULL for the entries of tmp
RECURSIVE ClearHandlers(_, _)
ClearHandlers(S, tmp) ==
    IF tmp = << >> THEN S
    ELSE ClearHandlers([ S EXCEPT !.waits[Head(tmp)].hand_cb = FALSE ], Tail(tmp))

\* the loop over tmp without q->msgs_on_queue--
RECURSIVE DestroyMsgLoop_keeps_count(_, _, _)
DestroyMsgLoop_keeps_count(S, q, tmp) ==
    IF tmp = << >> \/ S.aborted THEN S
    ELSE LET w  == Head(tmp)
             S1 == [ S EXCEPT
                       !.queues[q].q = RemoveFirst(@, w),
                       !.waits[w].usecount = @ - 1 ]
             S2 == IF S1.waits[w].usecount = 0 THEN wait_destroy(S1, w) ELSE S1
         IN  DestroyMsgLoop_keeps_count(S2, q, Tail(tmp))

\* the loop over tmp: remove from q, count down, release
RECURSIVE DestroyMsgLoop(_, _, _)
DestroyMsgLoop(S, q, tmp) ==
    IF tmp = << >> \/ S.aborted THEN S
    ELSE LET w  == Head(tmp)
             S1 == [ S EXCEPT
                       !.queues[q].q = RemoveFirst(@, w),
                       !.queues[q].msgs_on_queue = @ - 1,
                       !.waits[w].usecount = @ - 1 ]
             S2 == IF S1.waits[w].usecount = 0 THEN wait_destroy(S1, w) ELSE S1
         IN  DestroyMsgLoop(S2, q, Tail(tmp))

wait_destroy_msg(S, q, pred, failat) ==
    LET tmp == SelectWaits(S, S.queues[q].q, pred)
    IN  IF failat > 0 /\ failat <= Len(tmp)
        THEN [ rc |-> -1, S |-> ClearHandlers(S, SubSeq(tmp, 1, failat - 1)) ]
        ELSE [ rc |-> Len(tmp),
               S  |-> DestroyMsgLoop(ClearHandlers(S, tmp), q, tmp) ]

(***************************************************************************)
(* What a user callback does when wait_runone invokes it: nothing          *)
(* ("none"), wait_addqueue (act.q, act.w), or wait_destroy_msg (act.q,     *)
(* act.pred).                                                              *)
(***************************************************************************)
Callback(S, act) ==
    CASE act.t = "none" -> S
      [] act.t = "addqueue" -> wait_addqueue(S, act.q, act.w, FALSE).S
      [] act.t = "destroy_msg" -> wait_destroy_msg(S, act.q, act.pred, 0).S

\* wait_runone without the test of the count: the callback runs on every pop
wait_runone_every_pop(S, w, act) ==
    LET S1 == [ S EXCEPT !.waits[w].usecount = @ - 1 ]
        S2 == IF S1.waits[w].cb \/ S1.waits[w].hand_cb
              THEN Callback([ S1 EXCEPT !.fired[w] = @ + 1 ], act)
              ELSE S1
    IN  IF S2.waits[w].usecount = 0 THEN wait_destroy(S2, w) ELSE S2

wait_runone(S, w, act) ==
    LET S1 == [ S EXCEPT !.waits[w].usecount = @ - 1 ]
    IN  IF S1.waits[w].usecount = 0
        THEN IF S1.waits[w].cb \/ S1.waits[w].hand_cb
             THEN wait_destroy(Callback([ S1 EXCEPT !.fired[w] = @ + 1 ], act), w)
             ELSE wait_destroy(S1, w)
        ELSE S1

\* wait_queue_destroy's loop releasing its entries with wait_runone
RECURSIVE QueueDestroyLoop_runs_callbacks(_, _)
QueueDestroyLoop_runs_callbacks(S, list) ==
    IF list = << >> \/ S.aborted THEN S
    ELSE QueueDestroyLoop_runs_callbacks(
             wait_runone(S, Head(list), [ t |-> "none" ]), Tail(list))

\* the body of wait_queue_destroy's loop, for the whole list
RECURSIVE QueueDestroyLoop(_, _)
QueueDestroyLoop(S, list) ==
    IF list = << >> \/ S.aborted THEN S
    ELSE LET w  == Head(list)
             S1 == [ S EXCEPT !.waits[w].usecount = @ - 1 ]
             S2 == IF S1.waits[w].usecount = 0 THEN wait_destroy(S1, w) ELSE S1
         IN  QueueDestroyLoop(S2, Tail(list))

\* wait_queue_destroy freeing the list without popping its entries
wait_queue_destroy_no_release(S, q) ==
    [ S EXCEPT
        !.queues[q] = [ magic |-> "freed", q |-> << >>, msgs_on_queue |-> 0 ] ]

wait_queue_destroy(S, q) ==
    [ QueueDestroyLoop(S, S.queues[q].q) EXCEPT
        !.queues[q] = [ magic |-> "freed", q |-> << >>, msgs_on_queue |-> 0 ] ]

(***************************************************************************)
(* The calls, as actions.  The caller passes live objects only, and calls  *)
(* from outside wait while a wait_runqueue is in progress.                 *)
(***************************************************************************)
Idle == run.q = 0 /\ ~aborted

LiveWait(w) == waits[w].magic = "WAIT_MAGIC"
LiveQueue(q) == queues[q].magic = "WAITQUEUE_MAGIC"

RECURSIVE SumUse(_, _)
SumUse(W, ws) ==
    IF ws = {} THEN 0
    ELSE LET w == CHOOSE x \in ws : TRUE
         IN  W[w].usecount + SumUse(W, ws \ {w})

\* the call returns, leaving S; w is the wait it popped in wait_runqueue's
\* loop, if it was a turn of that loop
Return(S, w) ==
    /\ waits' = S.waits
    /\ queues' = S.queues
    /\ fired' = S.fired
    /\ aborted' = S.aborted
    /\ popped' = w

WaitCreate(w) ==
    /\ Idle
    /\ waits[w].magic = "none"
    /\ \A v \in Waits : v < w => waits[v].magic # "none"
    /\ \E new \in { wait_create, wait_create_msg_handler } :
          Return([ WQState EXCEPT !.waits[w] = new ], 0)
    /\ UNCHANGED << run, mvars >>

WaitDestroy(w) ==
    /\ Idle
    /\ LiveWait(w)
    /\ waits[w].usecount = 0
    /\ Return(wait_destroy(WQState, w), 0)
    /\ UNCHANGED << run, mvars >>

AddQueue(q, w, fail) ==
    /\ Idle
    /\ LiveQueue(q) /\ LiveWait(w)
    /\ SumUse(waits, Waits) < MaxEntries
    /\ Return(wait_addqueue(WQState, q, w, fail).S, 0)
    /\ UNCHANGED << run, mvars >>

\* the test callbacks a caller may pass for queue q: NULL, or one for each
\* way of answering on the messages of q's entries (it is shown no others)
Preds(q) ==
    { [ null |-> TRUE, P |-> {} ] }
        \cup { [ null |-> FALSE, P |-> P ] :
                 P \in SUBSET { w \in Waits : /\ waits[w].hand_msg
                                              /\ \E i \in DOMAIN queues[q].q :
                                                    queues[q].q[i] = w } }

\* the allocations of wait_destroy_msg (q, pred) that may fail: one for each
\* matching entry (0: none fails)
DestroyMsgFailures(q, pred) ==
    0 .. Len(SelectWaits(WQState, queues[q].q, pred))

DestroyMsg(q, pred, failat) ==
    /\ Idle
    /\ LiveQueue(q)
    /\ Return(wait_destroy_msg(WQState, q, pred, failat).S, 0)
    /\ UNCHANGED << run, mvars >>

QueueDestroy(q) ==
    /\ Idle
    /\ LiveQueue(q)
    /\ Return(wait_queue_destroy(WQState, q), 0)
    /\ UNCHANGED << run, mvars >>

(***************************************************************************)
(* wait_runqueue (q).  RunQueue is the call up to the first zlist_pop:     *)
(* an empty list returns 0 at once, a failing zlist_dup ('fail') returns   *)
(* -1, else the list is copied to cpy and purged.  RunQueueStep is one     *)
(* turn of the while loop, the popped wait's callback doing 'act'; the     *)
(* call returns 0 when cpy is empty.                                       *)
(***************************************************************************)
\* wait_runqueue up to its loop, purging q->q whether or not zlist_dup failed
wait_runqueue_dup_purge_always(S, q, fail) ==
    IF Len(S.queues[q].q) = 0 THEN [ rc |-> 0, S |-> S, cpy |-> << >> ]
    ELSE IF fail
    THEN [ rc |-> -1, S |-> [ S EXCEPT !.queues[q].q = << >> ], cpy |-> << >> ]
    ELSE [ rc |-> 0, S |-> [ S EXCEPT !.queues[q].q = << >> ],
           cpy |-> S.queues[q].q ]

\* wait_runqueue up to its loop, without zlist_purge: the entries stay on q->q
wait_runqueue_dup_no_purge(S, q, fail) ==
    IF Len(S.queues[q].q) = 0 THEN [ rc |-> 0, S |-> S, cpy |-> << >> ]
    ELSE IF fail THEN [ rc |-> -1, S |-> S, cpy |-> << >> ]
    ELSE [ rc |-> 0, S |-> S, cpy |-> S.queues[q].q ]

\* wait_runqueue up to its loop: the return code (if it returns here), the
\* state and cpy
wait_runqueue_dup(S, q, fail) ==
    IF Len(S.queues[q].q) = 0 THEN [ rc |-> 0, S |-> S, cpy |-> << >> ]
    ELSE IF fail THEN [ rc |-> -1, S |-> S, cpy |-> << >> ]
    ELSE [ rc |-> 0, S |-> [ S EXCEPT !.queues[q].q = << >> ],
           cpy |-> S.queues[q].q ]

RunQueue(q, fail) ==
    /\ Idle
    /\ LiveQueue(q)
    /\ LET r == wait_runqueue_dup(WQState, q, fail)
       IN  /\ Return(r.S, 0)
           /\ run' = IF r.cpy = << >> THEN run ELSE [ q |-> q, cpy |-> r.cpy ]
    /\ UNCHANGED mvars

\* the test callbacks a user callback may pass during a run: NULL, or one
\* for each way of answering on the messages of the live waits (those still
\* in the run's copy included)
TestCallbacks ==
    { [ null |-> TRUE, P |-> {} ] }
        \cup { [ null |-> FALSE, P |-> P ] :
                 P \in SUBSET { w \in Waits : LiveWait(w) /\ waits[w].hand_msg } }

CallbackActs(reentrant) ==
    { [ t |-> "none" ] }
        \cup (IF reentrant
              THEN { [ t |-> "addqueue", q |-> q, w |-> w ] :
                        q \in { x \in Queues : LiveQueue(x) },
                        w \in { x \in Waits : LiveWait(x) } }
                   \cup { [ t |-> "destroy_msg", q |-> q, pred |-> pred ] :
                        q \in { x \in Queues : LiveQueue(x) },
                        pred \in TestCallbacks }
              ELSE {})

\* wait_runqueue's loop popping w from cpy without q->msgs_on_queue--
wait_runqueue_pop_keeps_count(S, q, w) == S

\* wait_runqueue's loop popping w from cpy, up to the call of wait_runone
wait_runqueue_pop(S, q, w) ==
    IF S.waits[w].hand_msg
    THEN [ S EXCEPT !.queues[q].msgs_on_queue = @ - 1 ]
    ELSE S

RunQueueStep(act) ==
    /\ run.q # 0 /\ ~aborted
    /\ run.cpy # << >>
    /\ act.t = "addqueue" => SumUse(waits, Waits) < MaxEntries
    /\ LET w  == Head(run.cpy)
           S1 == wait_runqueue_pop(WQState, run.q, w)
           S2 == wait_runone(S1, w, act)
           done == Tail(run.cpy) = << >> \/ S2.aborted
       IN  /\ Return(S2, w)
           /\ run' = IF done /\ ~S2.aborted
                     THEN [ q |-> 0, cpy |-> << >> ]
                     ELSE [ run EXCEPT !.cpy = Tail(@) ]
    /\ UNCHANGED mvars

WQInit ==
    /\ waits = [ w \in Waits |-> NoWait ]
    /\ queues = [ q \in Queues |-> wait_queue_create ]
    /\ fired = [ w \in Waits |-> 0 ]
    /\ run = [ q |-> 0, cpy |-> << >> ]
    /\ aborted = FALSE
    /\ popped = 0

NextWQ(reentrant) ==
    \/ \E w \in Waits : WaitCreate(w)
    \/ \E w \in Waits : WaitDestroy(w)
    \/ \E q \in Queues, w \in Waits, fail \in BOOLEAN : AddQueue(q, w, fail)
    \/ \E q \in Queues : \E pred \in Preds(q) :
          \E failat \in DestroyMsgFailures(q, pred) : DestroyMsg(q, pred, failat)
    \/ \E q \in Queues : QueueDestroy(q)
    \/ \E q \in Queues, fail \in BOOLEAN : RunQueue(q, fail)
    \/ \E act \in CallbackActs(reentrant) : RunQueueStep(act)

(***************************************************************************)
(* The monitor's specification: the reactor runs one handler at a time.    *)
(* U is the set of ids the broker's groups and the requests may name.      *)
(***************************************************************************)
OnlineSnapshot(U) ==
    \E members \in MemberStrings(U) :
        \E fail \in (IF idset_valid(members) /\ f_online = "ready"
                      THEN PostFailures(up, idset_decode(members))
                      ELSE { "none" }) :
            broker_online_cb(members, fail)

TorpidSnapshot(U) ==
    \E members \in MemberStrings(U) :
        \E fail \in (IF idset_valid(members) /\ f_torpid = "ready"
                      THEN PostFailures(torpid, idset_decode(members))
                      ELSE { "none" }) :
            broker_torpid_cb(members, fail)

WaitupRequest ==
    /\ nreq < MaxReq
    /\ \E msg \in WaitupMsgs(NextId) : waitup_cb(msg)

ForceDownRequest(U) ==
    /\ nreq < MaxReq
    /\ \E msg \in ForceDownMsgs(NextId, U) :
           \E fail \in ForceDownFailures(msg) : force_down_cb(msg, fail)

GetDown == \E fail \in BOOLEAN : monitor_get_down(fail)

Init == MonitorInit /\ WQInit

\* every handler of the monitor
Next ==
    \/ OnlineSnapshot(Ranks)
    \/ TorpidSnapshot(Ranks)
    \/ WaitupRequest
    \/ ForceDownRequest(Ranks)

Spec == Init /\ [][Next]_vars

\* the handlers that post events: no waitup requests arrive
NextMember ==
    \/ OnlineSnapshot(Ranks)
    \/ TorpidSnapshot(Ranks)
    \/ ForceDownRequest(Ranks)

SpecMember == Init /\ [][NextMember]_vars

\* the handlers that touch monitor->up: the torpid group stays silent
NextWaitup ==
    \/ OnlineSnapshot(Ranks)
    \/ WaitupRequest
    \/ ForceDownRequest(Ranks)

SpecWaitup == Init /\ [][NextWaitup]_vars

\* the online group and the requests may name any id, and other parts of
\* the resource module call monitor_get_down
NextDown ==
    \/ OnlineSnapshot(Ids)
    \/ ForceDownRequest(Ids)
    \/ GetDown

SpecDown == Init /\ [][NextDown]_vars

\* the waitqueue's specifications run beside one monitor
InitWQ == monitor_create(0, FALSE, FALSE) /\ WQInit

\* the waitqueue, with callbacks that do not call back into it
SpecWQ == InitWQ /\ [][NextWQ(FALSE)]_vars

\* the waitqueue, with callbacks that call wait_addqueue and wait_destroy_msg
SpecWQReentrant == InitWQ /\ [][NextWQ(TRUE)]_vars

(***************************************************************************)
(* Properties of the monitor.  A step of a specification is one handler    *)
(* run to its return: unprimed variables are the state it found, primed    *)
(* ones the state it left, out' what it posted and sent, last' which       *)
(* handler it was and its result.                                          *)
(***************************************************************************)
IsPost(e) == e.t = "post"

Posts(o) == SelectSeq(o, IsPost)

JoinEvents == { "online", "torpid" }
LeaveEvents == { "offline", "lively" }

\* the handler of this step committed a new monitor->up
CommitsUp == last'.op \in { "broker_online_cb", "force_down_cb" } /\ last'.rc = 0

\* out holds a success response to request id
SuccessSent(o, id) ==
    \E k \in DOMAIN o : o[k].t = "respond" /\ o[k].id = id /\ o[k].rc = "ok"

ResponseSent(o, id) == \E k \in DOMAIN o : o[k].t = "respond" /\ o[k].id = id

InList(list, msg) == \E i \in DOMAIN list : list[i] = msg

\* the posts among the first n entries of o, replayed onto acc
RECURSIVE ReplayPrefix(_, _, _)
ReplayPrefix(acc, o, n) ==
    IF n = 0 THEN acc
    ELSE LET before == ReplayPrefix(acc, o, n - 1)
         IN  IF IsPost(o[n]) THEN Replay(before, o[n].ev) ELSE before

(***************************************************************************)
(* C2: on the leader, whenever a handler has returned, the event log       *)
(* replayed (the restart event's online set, plus each online event's      *)
(* idset, minus each offline event's, in log order) is monitor->up.        *)
(***************************************************************************)
C2_ReplayIsUp == rank = 0 => eventlog.replay = up

C4_ResponseAfterPostAndCommit ==
    [][ rank = 0 =>
          /\ \A i \in DOMAIN waitup_requests, k \in DOMAIN out' :
                LET req == waitup_requests[i]
                IN  (/\ out'[k].t = "respond"
                     /\ out'[k].id = req.id
                     /\ out'[k].rc = "ok") =>
                        /\ CommitsUp
                        /\ out'[k].upcount = req.up
                        /\ out'[k].upcount = idset_count(up')
                        /\ \A j \in DOMAIN out' : IsPost(out'[j]) => j < k
                        /\ ReplayPrefix(up, out', k) = up'
          /\ \A msg \in WaitupMsgs(NextId), k \in DOMAIN out' :
                (/\ last'.op = "waitup_cb"
                 /\ waitup_cb(msg)
                 /\ out'[k].t = "respond" /\ out'[k].rc = "ok") =>
                        /\ out'[k].upcount = msg.up
                        /\ out'[k].upcount = idset_count(up')
      ]_vars

\* a snapshot posted an event and then answered a deferred waitup request
C4_Witness ==
    /\ rank = 0
    /\ last = [ op |-> "broker_online_cb", rc |-> 0 ]
    /\ \E j, k \in DOMAIN out :
          /\ j < k
          /\ IsPost(out[j])
          /\ out[k].t = "respond" /\ out[k].rc = "ok"

(***************************************************************************)
(* C5, as the specification states it: in every leader state reached by    *)
(* online snapshots carrying any decodable idset and by force-down         *)
(* requests, the set monitor_get_down returns satisfies up \cap down = {}, *)
(* up \cup down = [0, size) and count(up) + count(down) = size.            *)
(***************************************************************************)
C5_DownPartitionsRanks ==
    (rank = 0 /\ last = [ op |-> "monitor_get_down", rc |-> 0 ]) =>
        /\ up \cap down = {}
        /\ up \cup down = Ranks
        /\ idset_count(up) + idset_count(down) = Size

(***************************************************************************)
(* C5, amended: the set monitor_get_down returns is disjoint from up and   *)
(* is [0, size) minus up; up \cup down = [0, size) and count(up) +         *)
(* count(down) = size hold when every member of up is below size.          *)
(***************************************************************************)
C5_DownIsRanksMinusUp ==
    (rank = 0 /\ last = [ op |-> "monitor_get_down", rc |-> 0 ]) =>
        /\ up \cap down = {}
        /\ down = Ranks \ up
        /\ up \subseteq Ranks =>
              /\ up \cup down = Ranks
              /\ idset_count(up) + idset_count(down) = Size

\* monitor_get_down returned a proper partition after a rank had gone down
C5_Witness ==
    /\ rank = 0
    /\ last = [ op |-> "monitor_get_down", rc |-> 0 ]
    /\ up # {} /\ up \subseteq Ranks
    /\ down # {}
    /\ lost # {}

(***************************************************************************)
(* C7: a handler posts the join event (online, torpid) of a diff before    *)
(* its leave event (offline, lively), at most one of each, each only for a *)
(* non-empty set of ids: the ids that joined and the ids that left; a      *)
(* snapshot equal to the cached set, and a force-down that removes         *)
(* nothing, post no event.                                                 *)
(***************************************************************************)
PostsInOrder ==
    LET posts == Posts(out)
    IN  last.op # "monitor_create" =>
          /\ Len(posts) <= 2
          /\ \A i \in DOMAIN posts :
                /\ idset_valid(posts[i].ev.context.idset)
                /\ idset_decode(posts[i].ev.context.idset) # {}
                /\ posts[i].ev.name \in
                      IF last.op = "broker_torpid_cb"
                      THEN { "torpid", "lively" } ELSE { "online", "offline" }
          /\ \A i, j \in DOMAIN posts :
                i < j => /\ posts[i].ev.name \in JoinEvents
                         /\ posts[j].ev.name \in LeaveEvents

NamedBy(o, name) ==
    UNION { idset_decode(o[k].ev.context.idset) :
              k \in { x \in DOMAIN o : IsPost(o[x]) /\ o[x].ev.name = name } }

C7_JoinBeforeLeave ==
    /\ [] PostsInOrder
    /\ [][ /\ (last'.op = "broker_online_cb" /\ Posts(out') # << >>) =>
                ~\E fail \in PostFailures(up, up) :
                      broker_online_cb(idset_encode(up), fail)
           /\ (last'.op = "broker_torpid_cb" /\ Posts(out') # << >>) =>
                ~\E fail \in PostFailures(torpid, torpid) :
                      broker_torpid_cb(idset_encode(torpid), fail)
           /\ (last'.op = "force_down_cb" /\ Posts(out') # << >>) =>
                ~\E ranks \in MemberStrings(Ranks) :
                      /\ idset_valid(ranks)
                      /\ idset_decode(ranks) \cap up = {}
                      /\ \E fail \in PostFailures(up, up) :
                             force_down_cb([ id |-> NextId, ok |-> TRUE,
                                             ranks |-> ranks ], fail)
           /\ (last'.rc = 0 /\ last'.op \in { "broker_online_cb", "force_down_cb" }) =>
                /\ NamedBy(out', "online") = up' \ up
                /\ NamedBy(out', "offline") = up \ up'
           /\ (last'.rc = 0 /\ last'.op = "broker_torpid_cb") =>
                /\ NamedBy(out', "torpid") = torpid' \ torpid
                /\ NamedBy(out', "lively") = torpid \ torpid'
      ]_vars

\* a snapshot in which one rank joined and another left posted both events
C7_Witness ==
    /\ last = [ op |-> "broker_online_cb", rc |-> 0 ]
    /\ Len(Posts(out)) = 2
    /\ Posts(out)[1].ev.name = "online"
    /\ Posts(out)[2].ev.name = "offline"

(***************************************************************************)
(* C8, as the specification states it: on the leader, for either setting   *)
(* of monitor_force_up, a rank is added to lost only if it appeared in the *)
(* idset of an earlier online event, and is removed from lost only by      *)
(* appearing in the idset of an online event posted then.                  *)
(***************************************************************************)
OnlinePosted(o, r) ==
    \E k \in DOMAIN o :
        /\ IsPost(o[k])
        /\ o[k].ev.name = "online"
        /\ r \in idset_decode(o[k].ev.context.idset)

C8_LostFromOnlineEvents ==
    [][ rank = 0 =>
          \A r \in Ids :
              /\ (r \in lost' /\ r \notin lost) => r \in eventlog.online
              /\ (r \in lost /\ r \notin lost') => OnlinePosted(out', r)
      ]_vars

(***************************************************************************)
(* C8, amended: a rank is added to lost only if it appeared in the idset   *)
(* of an earlier online event or in the online set of the restart event    *)
(* (monitor_force_up puts every rank there), and is removed from lost only *)
(* by appearing in the idset of an online event posted then.               *)
(***************************************************************************)
C8_LostFromOnlineOrRestart ==
    [][ rank = 0 =>
          \A r \in Ids :
              /\ (r \in lost' /\ r \notin lost) =>
                    r \in eventlog.online \cup eventlog.restart
              /\ (r \in lost /\ r \notin lost') => OnlinePosted(out', r)
      ]_vars

\* with monitor_force_up, a force-down has put a rank into lost that no
\* online event ever named
C8_Witness ==
    /\ rank = 0
    /\ monitor_force_up
    /\ last = [ op |-> "force_down_cb", rc |-> 0 ]
    /\ lost # {}
    /\ eventlog.online = {}

CountIn(w, seq) == Cardinality({ i \in DOMAIN seq : seq[i] = w })

\* this step is a turn of wait_runqueue's loop that pops w
PopsWait(w) ==
    /\ run.q # 0
    /\ run.cpy # << >>
    /\ Head(run.cpy) = w
    /\ RunQueueStep([ t |-> "none" ])

HasCallback(w) == waits[w].cb \/ waits[w].hand_cb

RECURSIVE EntriesIn(_, _)
EntriesIn(w, qs) ==
    IF qs = {} THEN 0
    ELSE LET q == CHOOSE x \in qs : TRUE
         IN  CountIn(w, queues[q].q) + EntriesIn(w, qs \ {q})

\* every reference to a live wait is an entry of a queue or of cpy
UsecountIsEntries ==
    \A w \in Waits :
        waits[w].magic = "WAIT_MAGIC" =>
            waits[w].usecount = CountIn(w, run.cpy) + EntriesIn(w, Queues)

(***************************************************************************)
(* C1: a wait's callback (plain or message handler) is not invoked by a    *)
(* run that leaves its usecount above 0; the run that brings usecount to 0 *)
(* invokes it exactly once and then destroys the wait; nothing else        *)
(* invokes a callback, and no callback is ever invoked more than once.     *)
(***************************************************************************)
C1_CallbackOnceOnLastRun ==
    [][ \A w \in Waits :
          /\ fired'[w] <= 1
          /\ fired'[w] # fired[w] => PopsWait(w) /\ waits[w].usecount = 1
          /\ PopsWait(w) =>
               /\ waits'[w].usecount = waits[w].usecount - 1
               /\ waits[w].usecount > 1 =>
                    /\ fired'[w] = fired[w]
                    /\ waits'[w].magic = "WAIT_MAGIC"
               /\ waits[w].usecount = 1 =>
                    /\ fired'[w] = IF HasCallback(w) THEN 1 ELSE 0
                    /\ waits'[w].magic = "freed"
      ]_vars

\* a run has just popped a wait for the last time, invoked its callback and
\* destroyed it, while the other queue still holds entries
C1_Witness ==
    \E w \in Waits :
        /\ popped = w
        /\ waits[w].magic = "freed"
        /\ fired[w] = 1
        /\ \E q \in Queues : queues[q].q # << >>

(***************************************************************************)
(* C6: wait_destroy_msg (q, pred) with pred true for the message of a wait *)
(* w on q removes w from q and clears its handler callback; from then on   *)
(* the handler stays cleared and is never invoked, and the pop that takes  *)
(* w's usecount to 0 destroys w: the handler fires zero times.             *)
(***************************************************************************)
C6_DestroyMsgSilencesHandler ==
    [][ /\ \A q \in Queues, w \in Waits :
             (/\ Idle /\ popped' = 0
              /\ waits[w].hand_msg
              /\ CountIn(w, queues[q].q) > 0) =>
                \A pred \in Preds(q) :
                    (w \in pred.P /\ DestroyMsg(q, pred, 0)) =>
                        /\ CountIn(w, queues'[q].q) = 0
                        /\ ~waits'[w].hand_cb
                        /\ fired'[w] = fired[w]
                        /\ waits'[w].usecount
                             = waits[w].usecount - CountIn(w, queues[q].q)
                        /\ waits'[w].magic =
                             IF waits'[w].usecount = 0 THEN "freed" ELSE "WAIT_MAGIC"
        /\ \A w \in Waits :
             (waits[w].hand_msg /\ ~waits[w].hand_cb) =>
                /\ ~waits'[w].hand_cb
                /\ fired'[w] = 0
                /\ (PopsWait(w) /\ waits[w].usecount = 1) =>
                        waits'[w].magic = "freed"
      ]_vars

\* a message-bearing wait whose handler wait_destroy_msg cleared was later
\* popped by wait_runqueue on another queue and destroyed, its handler not run
C6_Witness ==
    \E w \in Waits :
        /\ popped = w
        /\ waits[w].magic = "freed"
        /\ waits[w].hand_msg /\ ~waits[w].hand_cb
        /\ fired[w] = 0

(***************************************************************************)
(* Properties of the request handlers.                                     *)
(***************************************************************************)
\* this step is the handler 'op' answering a new request
Handles(op) == last'.op = op /\ nreq' = nreq + 1

\* the error response to request id, sent while count(up) was n
ErrorResponse(id, errnum, errstr, n) ==
    [ t |-> "respond", id |-> id, rc |-> "error", errnum |-> errnum,
      errstr |-> errstr, upcount |-> n ]

\* what the monitor holds besides its record of requests and responses
MonitorState ==
    << rank, up, torpid, lost, down, waitup_requests, eventlog, f_online,
       f_torpid >>

(***************************************************************************)
(* C11: on a follower (rank > 0) a resource.monitor-waitup and a           *)
(* resource.monitor-force-down request, whatever the payload, get exactly  *)
(* one response, the error EPROTO with the text "this RPC only works on    *)
(* rank 0", and the monitor's state is left unchanged.                     *)
(***************************************************************************)
C11_FollowerRejectsLeaderRPCs ==
    [][ (rank # 0 /\ (Handles("waitup_cb") \/ Handles("force_down_cb"))) =>
            /\ out' = << ErrorResponse(nreq', "EPROTO",
                                       "this RPC only works on rank 0", 0) >>
            /\ UNCHANGED MonitorState
      ]_vars

(***************************************************************************)
(* Properties of the waitqueue's counters.                                 *)
(***************************************************************************)
\* the entries of seq that carry a message
MsgEntries(seq) == { i \in DOMAIN seq : waits[seq[i]].hand_msg }

(***************************************************************************)
(* C12: between calls (no wait_runqueue in progress), for every queue q,   *)
(* wait_queue_msgs_count (q) is the number of entries of q that carry a    *)
(* message and wait_queue_length (q) is the number of entries of q,        *)
(* whatever calls were made, a wait being on several queues or several     *)
(* times on one.                                                           *)
(***************************************************************************)
C12_CountsMatchEntries ==
    Idle =>
        \A q \in Queues :
            LiveQueue(q) =>
                /\ wait_queue_msgs_count(WQState, q)
                      = Cardinality(MsgEntries(queues[q].q))
                /\ wait_queue_length(WQState, q)
                      = Cardinality(DOMAIN queues[q].q)

\* a run has just returned after popping a message-bearing wait that is still
\* on another queue, beside a plain wait
C12_Witness ==
    /\ Idle
    /\ popped # 0
    /\ waits[popped].hand_msg
    /\ \E q \in Queues :
          /\ LiveQueue(q)
          /\ CountIn(popped, queues[q].q) > 0
          /\ Len(queues[q].q) > queues[q].msgs_on_queue

(***************************************************************************)
(* C13: wait_runqueue (q) on a non-empty q.  If zlist_dup fails it returns *)
(* -1 and q's entries and order, q's msgs_on_queue, every usecount and     *)
(* every callback count are as before.  Otherwise all the entries of q are *)
(* moved to the private copy, q is left empty, and the loop pops the copy  *)
(* entry by entry until it is empty, each pop taking one reference from    *)
(* the wait popped: every usecount stays the number of occurrences not yet *)
(* popped.                                                                 *)
(***************************************************************************)
C13_RunQueueAllOrNothing ==
    /\ [] UsecountIsEntries
    /\ [][ /\ \A q \in Queues :
                (Idle /\ LiveQueue(q) /\ queues[q].q # << >>) =>
                    /\ RunQueue(q, TRUE) =>
                          /\ wait_runqueue_dup(WQState, q, TRUE).rc = -1
                          /\ UNCHANGED << waits, queues, fired, run >>
                    /\ RunQueue(q, FALSE) =>
                          /\ wait_runqueue_dup(WQState, q, FALSE).rc = 0
                          /\ run' = [ q |-> q, cpy |-> queues[q].q ]
                          /\ queues' = [ queues EXCEPT ![q].q = << >> ]
                          /\ UNCHANGED << waits, fired >>
           /\ (run.q # 0 /\ ~aborted) =>
                /\ popped' = Head(run.cpy)
                /\ run' \in { [ run EXCEPT !.cpy = Tail(@) ],
                              [ q |-> 0, cpy |-> << >> ] }
                /\ run'.q = 0 => Tail(run.cpy) = << >>
                /\ Tail(run.cpy) = << >> => (run'.q = 0 \/ aborted')
      ]_vars

\* in the middle of a run: a wait that was on q twice has been popped once
\* and is still once in the copy, q being empty
C13_Witness ==
    /\ run.q # 0 /\ ~aborted
    /\ popped # 0
    /\ CountIn(popped, run.cpy) = 1
    /\ waits[popped].usecount = 1
    /\ queues[run.q].q = << >>

(***************************************************************************)
(* Callbacks that call back into the waitqueue during wait_runqueue (q).   *)
(***************************************************************************)
\* this turn of the loop invokes the callback of the wait it pops
CallbackRuns ==
    /\ run.q # 0 /\ ~aborted
    /\ waits[Head(run.cpy)].usecount = 1
    /\ HasCallback(Head(run.cpy))

\* the callback of this turn calls wait_addqueue (run.q, v)
AppendsToRunning(v) ==
    RunQueueStep([ t |-> "addqueue", q |-> run.q, w |-> v ])

InitialUp == IF monitor_force_up THEN Ranks ELSE {}

C15_RestartFirstAndOnce ==
    /\ [] (rank = 0 =>
             /\ eventlog.restart = InitialUp
             /\ last.op = "monitor_create" =>
                   /\ up = InitialUp
                   /\ Len(out) = 1
                   /\ IsPost(out[1])
                   /\ out[1].ev.name = "restart"
                   /\ idset_decode(out[1].ev.context.online) = up
                   /\ idset_decode(out[1].ev.context.ranks) = Ranks)
    /\ [][ rank = 0 =>
             /\ last'.op # "monitor_create"
             /\ eventlog'.restart = eventlog.restart
             /\ \A k \in DOMAIN out' :
                   IsPost(out'[k]) =>
                       out'[k].ev.name \in JoinEvents \cup LeaveEvents
         ]_vars

\* a monitor created with monitor_force_up has posted an offline event after
\* its restart event
C15_Witness ==
    /\ rank = 0
    /\ monitor_force_up
    /\ eventlog.restart = Ranks
    /\ last.op = "force_down_cb"
    /\ \E k \in DOMAIN out : IsPost(out[k]) /\ out[k].ev.name = "offline"

(***************************************************************************)
(* C16: a successful resource.monitor-force-down request naming the ranks  *)
(* R, on a leader with up = U, commits up = U \ R; posts one event,        *)
(* `offline` with idset U \cap R, if that set is not empty and no event if *)
(* it is; adds U \cap R to lost; answers and removes the deferred waitup   *)
(* requests whose target is count (U \ R), leaving the others; and then    *)
(* sends the empty success response, the last thing the handler does.      *)
(***************************************************************************)
C16_ForceDownCommits ==
    [][ (rank = 0 /\ Handles("force_down_cb") /\ last'.rc = 0) =>
          \A msg \in ForceDownMsgs(NextId, Ranks) :
              (/\ msg.ok /\ idset_valid(msg.ranks)
               /\ force_down_cb(msg, "none")) =>
                  LET R     == idset_decode(msg.ranks)
                      posts == Posts(out')
                  IN  /\ up' = up \ R
                      /\ lost' = lost \cup (up \cap R)
                      /\ IF up \cap R = {}
                         THEN posts = << >>
                         ELSE /\ Len(posts) = 1
                              /\ posts[1].ev.name = "offline"
                              /\ idset_decode(posts[1].ev.context.idset)
                                    = up \cap R
                      /\ \A i \in DOMAIN waitup_requests :
                            LET req == waitup_requests[i]
                            IN  IF req.up = idset_count(up \ R)
                                THEN /\ SuccessSent(out', req.id)
                                     /\ ~InList(waitup_requests', req)
                                ELSE /\ ~ResponseSent(out', req.id)
                                     /\ InList(waitup_requests', req)
                      /\ Len(waitup_requests') <= Len(waitup_requests)
                      /\ out' # << >>
                      /\ out'[Len(out')] =
                            [ t |-> "respond", id |-> msg.id, rc |-> "ok",
                              errnum |-> "0", errstr |-> "",
                              upcount |-> idset_count(up \ R) ]
                      /\ nresp'[msg.id] = 1
      ]_vars

\* a force-down has posted an offline event, answered a deferred waitup
\* request and then its own requester
C16_Witness ==
    /\ rank = 0
    /\ last = [ op |-> "force_down_cb", rc |-> 0 ]
    /\ Len(out) = 3
    /\ IsPost(out[1]) /\ out[1].ev.name = "offline"
    /\ out[2].t = "respond" /\ out[2].rc = "ok"
    /\ out[3].t = "respond" /\ out[3].rc = "ok" /\ out[3].id = nreq
    /\ lost # {}

C19_UsecountCountsMemberships ==
    /\ [] (Idle =>
             /\ \A w \in Waits :
                   LiveWait(w) => waits[w].usecount = EntriesIn(w, Queues)
             /\ \A q \in Queues : \A i \in DOMAIN queues[q].q :
                   /\ LiveQueue(q)
                   /\ LiveWait(queues[q].q[i]))
    /\ [][ \A w \in Waits :
             /\ (waits[w].magic = "none" /\ LiveWait(w)') =>
                   waits'[w].usecount = 0
             /\ (LiveWait(w) /\ ~aborted') =>
                   /\ (waits[w].usecount > 0 /\ waits'[w].usecount = 0) =>
                         waits'[w].magic = "freed"
                   /\ waits'[w].magic = "freed" => waits'[w].usecount = 0
                   /\ (waits'[w].magic = "WAIT_MAGIC" /\ waits'[w].usecount = 0) =>
                         waits[w].usecount = 0
         ]_vars

\* wait_queue_destroy has released a wait that only its queue held, while
\* another wait is still on the other queue
C19_Witness ==
    /\ Idle
    /\ \E q \in Queues : queues[q].magic = "freed"
    /\ \E w \in Waits : waits[w].magic = "freed" /\ fired[w] = 0
    /\ \E v \in Waits : LiveWait(v) /\ waits[v].usecount > 0

(***************************************************************************)
(* C20: wait_destroy_msg (q, pred, arg) that succeeds, called between      *)
(* calls on any queue the program can have built, returns k, the number of *)
(* entries of q that carry a message pred accepts; it removes those        *)
(* entries and no others, takes k from msgs_on_queue, and leaves the other *)
(* entries of q in their order, the waits that are not removed and the     *)
(* other queues as they were; no callback is invoked.  With a NULL pred it *)
(* returns 0 and changes nothing.                                          *)
(***************************************************************************)
C20_DestroyMsgRemovesMatches ==
    Idle =>
      \A q \in Queues :
        LiveQueue(q) =>
          \A pred \in Preds(q) :
              LET r == wait_destroy_msg(WQState, q, pred, 0)
                  Matches(w) == /\ waits[w].hand_msg
                                /\ ~pred.null
                                /\ w \in pred.P
                  Stays(w)   == ~Matches(w)
                  k == Cardinality({ i \in DOMAIN queues[q].q :
                                        Matches(queues[q].q[i]) })
              IN  /\ r.rc = k
                  /\ r.S.fired = fired
                  /\ ~r.S.aborted
                  /\ r.S.queues[q].q = SelectSeq(queues[q].q, Stays)
                  /\ r.S.queues[q].msgs_on_queue = queues[q].msgs_on_queue - k
                  /\ r.S.queues[q].magic = queues[q].magic
                  /\ \A p \in Queues \ {q} : r.S.queues[p] = queues[p]
                  /\ \A w \in Waits :
                        IF Matches(w) /\ CountIn(w, queues[q].q) > 0
                        THEN /\ r.S.waits[w].usecount = waits[w].usecount
                                    - CountIn(w, queues[q].q)
                             /\ ~r.S.waits[w].hand_cb
                        ELSE r.S.waits[w] = waits[w]
                  /\ pred.null => (k = 0 /\ r.S = WQState)

\* wait_destroy_msg has removed and released a message-bearing wait and left
\* a plain wait on the queue
C20_Witness ==
    /\ Idle
    /\ popped = 0
    /\ \E w \in Waits :
          /\ waits[w].magic = "freed"
          /\ waits[w].hand_msg /\ ~waits[w].hand_cb
    /\ \E q \in Queues, v \in Waits :
          /\ LiveWait(v) /\ waits[v].cb
          /\ CountIn(v, queues[q].q) > 0

(***************************************************************************)
(* Properties of the group streams.                                        *)
(***************************************************************************)
\* this step is the handler 'op' finding that group_get failed
ParseFails(op) == last'.op = op /\ last'.rc = -2

(***************************************************************************)
(* C21: when the response of a group stream does not parse (group_get      *)
(* fails), the handler leaves up, torpid and lost as they were, posts no   *)
(* event and answers no waitup request, and the stream stays armed: its    *)
(* handler runs again for the next snapshot delivered on it.               *)
(***************************************************************************)
C21_ParseFailureKeepsStream ==
    [][ /\ (ParseFails("broker_online_cb") /\ f_online = "ready") =>
              /\ UNCHANGED << up, torpid, lost, waitup_requests, eventlog, nresp >>
              /\ out' = << >>
              /\ f_online' = "ready"
        /\ (ParseFails("broker_torpid_cb") /\ f_torpid = "ready") =>
              /\ UNCHANGED << up, torpid, lost, waitup_requests, eventlog, nresp >>
              /\ out' = << >>
              /\ f_torpid' = "ready"
      ]_vars

(***************************************************************************)
(* C22: a snapshot of the torpid group changes torpid only: up, lost and   *)
(* the deferred waitup requests are as before, no response is sent, and    *)
(* the events it posts are torpid and lively ones; a snapshot of the       *)
(* online group and a force-down request leave torpid as it was and post   *)
(* online and offline events only.  A rank may be in up and in torpid.     *)
(***************************************************************************)
C22_TorpidIsOrthogonal ==
    [][ /\ last'.op = "broker_torpid_cb" =>
              /\ UNCHANGED << up, lost, waitup_requests, nresp >>
              /\ \A k \in DOMAIN out' :
                    /\ IsPost(out'[k])
                    /\ out'[k].ev.name \in { "torpid", "lively" }
        /\ last'.op \in { "broker_online_cb", "force_down_cb" } =>
              /\ torpid' = torpid
              /\ \A k \in DOMAIN out' :
                    IsPost(out'[k]) =>
                        out'[k].ev.name \in { "online", "offline" }
      ]_vars

\* a torpid snapshot has posted an event for a rank that is up, while a
\* waitup request is deferred
C22_Witness ==
    /\ rank = 0
    /\ last = [ op |-> "broker_torpid_cb", rc |-> 0 ]
    /\ Posts(out) # << >>
    /\ up \cap torpid # {}
    /\ waitup_requests # << >>

(***************************************************************************)
(* C23: wait_destroy_msg (q, pred, arg) that fails, an allocation for its  *)
(* temporary list failing during the scan, returns -1 and has changed      *)
(* nothing: q's entries and their order, q's msgs_on_queue, and every      *)
(* wait's usecount and handler callback are as they were before the call.  *)
(***************************************************************************)
C23_FailedDestroyMsgChangesNothing ==
    [][ \A q \in Queues :
          (Idle /\ LiveQueue(q) /\ popped' = 0) =>
              \A pred \in Preds(q) :
                  \A failat \in DestroyMsgFailures(q, pred) \ {0} :
                      DestroyMsg(q, pred, failat) =>
                          /\ wait_destroy_msg(WQState, q, pred, failat).rc = -1
                          /\ UNCHANGED << waits, queues, fired >>
      ]_vars

(***************************************************************************)
(* C24: wait_queue_destroy (q) fails no assertion and invokes no callback. *)
(* Every wait loses one reference for each of its entries on q; a wait     *)
(* whose usecount reaches 0 is destroyed, not fired; a wait with entries   *)
(* on other queues stays alive, on those queues, with its callbacks as     *)
(* they were.  The other queues are left alone.                            *)
(***************************************************************************)
C24_QueueDestroyReleasesQuietly ==
    [][ \A q \in Queues :
          (Idle /\ LiveQueue(q) /\ popped' = 0 /\ QueueDestroy(q)) =>
              /\ ~aborted'
              /\ fired' = fired
              /\ queues'[q].magic = "freed"
              /\ \A p \in Queues \ {q} : queues'[p] = queues[p]
              /\ \A w \in Waits :
                    LET n == CountIn(w, queues[q].q)
                    IN  IF n = 0 THEN waits'[w] = waits[w]
                        ELSE /\ waits'[w].usecount = waits[w].usecount - n
                             /\ waits'[w].cb = waits[w].cb
                             /\ waits'[w].hand_cb = waits[w].hand_cb
                             /\ waits'[w].hand_msg = waits[w].hand_msg
                             /\ waits'[w].magic =
                                   IF waits[w].usecount = n
                                   THEN "freed" ELSE "WAIT_MAGIC"
                             /\ waits[w].usecount > n =>
                                   EntriesIn(w, Queues \ {q})
                                      = waits'[w].usecount
      ]_vars

\* a destroyed queue has released a wait that had a callback without firing
\* it, and a wait that has one is still on the other queue
C24_Witness ==
    /\ Idle
    /\ popped = 0
    /\ \E q \in Queues : queues[q].magic = "freed"
    /\ \E v \in Waits :
          /\ waits[v].magic = "freed"
          /\ HasCallback(v)
          /\ fired[v] = 0
    /\ \E w \in Waits :
          /\ LiveWait(w) /\ HasCallback(w)
          /\ EntriesIn(w, Queues) > 0

(***************************************************************************)
(* C25: assert (w->usecount == 0) in wait_destroy never fails, whatever    *)
(* calls are made, callbacks run by wait_runqueue calling wait_addqueue    *)
(* (for any live wait, the one that is firing included) and                *)
(* wait_destroy_msg.                                                       *)
(***************************************************************************)
C25_DestroyAssertionHolds == aborted = FALSE

RECURSIVE DrainCopy(_, _, _)
DrainCopy(S, q, cpy) ==
    IF cpy = << >> \/ S.aborted THEN S
    ELSE DrainCopy(wait_runone(wait_runqueue_pop(S, q, Head(cpy)), Head(cpy),
                               [ t |-> "none" ]),
                   q, Tail(cpy))

(***************************************************************************)
(* C27: once wait_destroy_msg (q, pred) has returned, the handler of a     *)
(* message-carrying wait w that was enqueued on q, has not fired and whose *)
(* message pred accepts is not invoked: between calls the handler of such  *)
(* an entry of q is cleared, and when a callback running inside            *)
(* wait_runqueue (q) makes the call while w is still in the run's copy,    *)
(* the rest of the run does not invoke w's handler.                        *)
(***************************************************************************)
C27_CancelIsComplete ==
    /\ Idle =>
          \A q \in Queues :
              LiveQueue(q) =>
                  \A pred \in Preds(q) :
                      \A w \in pred.P :
                          ~wait_destroy_msg(WQState, q, pred, 0).S.waits[w].hand_cb
    /\ CallbackRuns =>
          \A w \in Waits :
              (/\ CountIn(w, Tail(run.cpy)) > 0
               /\ waits[w].hand_msg /\ waits[w].hand_cb) =>
                  LET v   == Head(run.cpy)
                      act == [ t |-> "destroy_msg", q |-> run.q,
                               pred |-> [ null |-> FALSE, P |-> {w} ] ]
                      S2  == wait_runone(wait_runqueue_pop(WQState, run.q, v),
                                         v, act)
                  IN  DrainCopy(S2, run.q, Tail(run.cpy)).fired[w] = fired[w]

(***************************************************************************)
(* C28: a leader's monitor created with monitor_force_up set, or in        *)
(* recovery mode, subscribes to neither group stream; whatever requests    *)
(* arrive, monitor->up never gains a rank and changes only in              *)
(* force_down_cb, monitor->torpid stays empty, and no online, torpid or    *)
(* lively event is posted.                                                 *)
(***************************************************************************)
C28_ForcedUpOnlyShrinks ==
    /\ [] ((rank = 0 /\ (monitor_force_up \/ recovery_mode)) =>
              /\ f_online = "NULL" /\ f_torpid = "NULL"
              /\ torpid = {}
              /\ up \subseteq InitialUp)
    /\ [][ (rank = 0 /\ (monitor_force_up \/ recovery_mode)) =>
              /\ up' \subseteq up
              /\ up' # up => last'.op = "force_down_cb"
              /\ last'.op \in { "waitup_cb", "force_down_cb" }
              /\ \A k \in DOMAIN out' :
                    IsPost(out'[k]) => out'[k].ev.name = "offline"
         ]_vars

\* a monitor created with monitor_force_up has been forced down a rank and
\* has posted the offline event
C28_Witness ==
    /\ rank = 0 /\ monitor_force_up
    /\ last = [ op |-> "force_down_cb", rc |-> 0 ]
    /\ up # Ranks
    /\ \E k \in DOMAIN out : IsPost(out[k]) /\ out[k].ev.name = "offline"

====
